---- MODULE Spec2Model ----
(***************************************************************************)
(* Model of simple_deploy's Cloud Run PlatformDeployer                     *)
(* (src/simple_deploy/management/commands/cloudrun/deploy.py).             *)
(*                                                                         *)
(* Texts (names, command lines, file contents, messages) are sequences of  *)
(* string tokens; Python's `x in y` on strings is Contains(x, y).          *)
(* The cloud project is the set `remote` of resources; the local project   *)
(* is the function `files`; `self` holds the deployer's attributes.        *)
(***************************************************************************)
EXTENDS Integers, Sequences, FiniteSets, TLC

VARIABLES
    sd,        \* the simple_deploy command object: options and project facts
    gcloud,    \* the local gcloud CLI: installed, configured project/region
    remote,    \* resources existing in the cloud project
    files,     \* local project files: name -> content, or NOFILE
    self,      \* attributes of the PlatformDeployer of the current run
    pc,        \* position of the current run
    status,    \* "running", or how the current run ended
    runNo,     \* number of the current run, 1..MaxRuns
    faults,    \* commands that failed although their prerequisites existed
    cmd,       \* the external command issued by the last step, or NoCmd
    shown,     \* texts the last step displayed (echo, log, stdout)
    answer,    \* the operator's reply to the last confirmation prompt
    probed,    \* this run: resource kind -> result of its latest probe
    steps,     \* this run: the remote steps started, in order
    ignored,   \* this run: create/update commands whose non-zero exit was ignored
    frame,     \* arguments and return point of the _create_and_assign_secret call
    outcomes   \* the statuses of the finished runs, in order

vars == <<sd, gcloud, remote, files, self, pc, status, runNo, faults, cmd,
          shown, answer, probed, steps, ignored, frame, outcomes>>

----------------------------------------------------------------------------
(* Bounds of the model. *)

MaxRuns == 2        \* deploy runs in sequence against the same project
MaxFaults == 1      \* commands failing for a reason outside the model

(* deploy.py:21 *)
psql_max_name_length == 63

----------------------------------------------------------------------------
(* Texts. *)

\* Python's `sub in text` for token sequences: a contiguous occurrence.
Contains(sub, text) ==
    \E i \in 0..(Len(text) - Len(sub)) :
        \A j \in 1..Len(sub) : text[i + j] = sub[j]

\* str.replace(old, new) for a one-token `old`.
RECURSIVE Replace(_, _, _)
Replace(text, old, new) ==
    IF text = <<>> THEN <<>>
    ELSE (IF Head(text) = old THEN new ELSE <<Head(text)>>)
         \o Replace(Tail(text), old, new)

\* anyascii's table, for the characters of the modelled names: every
\* non-ASCII character becomes its ASCII transliteration, ASCII is kept.
anyascii_char(c) ==
    CASE c = "é" -> <<"e">>
      [] c = "ß" -> <<"s", "s">>
      [] OTHER -> <<c>>

RECURSIVE anyascii(_)
anyascii(text) ==
    IF text = <<>> THEN <<>>
    ELSE anyascii_char(Head(text)) \o anyascii(Tail(text))

\* The length in characters of a text (tokens are words of the given size).
TokenLen(t) ==
    CASE t = "proj" -> 4
      [] t = "a-very-long-project-identifier" -> 30
      [] t = "us-east1" -> 8
      [] t = "us-central1" -> 11
      [] t = "europe-west1" -> 12
      [] t = "sd-inst" -> 7
      [] t = "sd-db" -> 5
      [] t = "/cloudsql/" -> 10
      [] t = ":" -> 1
      [] t = "/" -> 1
      [] OTHER -> 1

RECURSIVE len(_)
len(text) == IF text = <<>> THEN 0 ELSE TokenLen(Head(text)) + len(Tail(text))

UNSET == <<"<unset attribute>">>
NOFILE == <<"<no such file>">>

Attributes ==
    {"project_id", "project_num", "region", "service_name", "cloudrun_sa",
     "cloudbuild_sa", "deployed_url", "artifact_registry", "secret_key_name",
     "instance_name", "database_name", "database_user", "instance_fqn",
     "database_pass", "instance_pass", "database_secret", "database_url",
     "registry_name", "image_name", "migrate_job_name"}

FileNames ==
    {"Procfile", ".gcloudignore", "cloudbuild.yaml", "settings.py", ".git/HEAD"}

Res(kind, name) == [kind |-> kind, name |-> name]

\* The names a "list" command prints for one kind of resource.
Listed(kind) == {r.name : r \in {q \in remote : q.kind = kind}}

\* The value a secret holds: what `gcloud secrets create NAME --data-file F`
\* stores from the file.
SecretVersion(name, value) == Res("secret_version", name \o <<"=">> \o value)

\* get_random_string: a fresh value for each call site of each run.
_get_random_string(site) == "random-" \o site \o "-" \o ToString(runNo)

----------------------------------------------------------------------------
(* Commands. *)

\* An external command: what it is (op), its text, how run() is told to run
\* it, whether it only reads (probe, lookup) or changes the project (create,
\* update), the resources its arguments refer to (needs), the resources it
\* leaves behind when it succeeds (makes), and its exit status.
Command(op, text, role, kind, needs, makes) ==
    [op |-> op, text |-> text, stream |-> FALSE, fail |-> FALSE,
     role |-> role, kind |-> kind, needs |-> needs, makes |-> makes, rc |-> 0]

NoCmd == Command("none", <<>>, "none", "none", {}, {})

Mutating(c) == c.role \in {"create", "update"}

Echo(c) == [chan |-> "echo", text |-> c.text]
Log(text) == [chan |-> "log", text |-> text]
Stdout(text) == [chan |-> "stdout", text |-> text]

\* The exit statuses a command can have: non-zero when the CLI is missing or
\* something the command refers to does not exist; otherwise zero, or, for a
\* command that changes the project, non-zero while faults remain.
ExitCodes(c) ==
    IF gcloud.installed /\ c.needs \subseteq remote
    THEN {0} \cup (IF Mutating(c) /\ faults < MaxFaults THEN {1} ELSE {})
    ELSE {1}

\* run(): sys.exit(1) only in buffered mode, with fail set, on non-zero.
run_exits(c, rc) == ~c.stream /\ rc # 0 /\ c.fail

\* run(): echo the command, execute it; the caller continues unless
\* run_exits. In streaming mode the exit status is never looked at.
run(c, rc) ==
    /\ rc \in ExitCodes(c)
    /\ cmd' = [c EXCEPT !.rc = rc]
    /\ remote' = IF rc = 0 THEN remote \cup c.makes ELSE remote
    /\ faults' = IF rc # 0 /\ c.needs \subseteq remote THEN faults + 1 ELSE faults
    /\ ignored' = IF rc # 0 /\ Mutating(c) /\ ~run_exits(c, rc)
                  THEN ignored \cup {c.op} ELSE ignored

\* A step that runs no command.
NoRun == /\ cmd' = NoCmd
         /\ UNCHANGED <<remote, faults, ignored>>

----------------------------------------------------------------------------
(* Control. *)

At(l) == status = "running" /\ pc = l

Goto(l) == /\ pc' = l
           /\ status' = "running"
           /\ outcomes' = outcomes

\* The run ends: "success" (deploy returned), "exit" (sys.exit()),
\* "exit1" (sys.exit(1)), "CommandError", "AttributeError".
End(st) == /\ pc' = pc
           /\ status' = st
           /\ outcomes' = Append(outcomes, st)

Set(attrs) == [a \in Attributes |-> IF a \in DOMAIN attrs THEN attrs[a] ELSE self[a]]

Unset(names) == {a \in names : self[a] = UNSET}

Probed(key, found) ==
    probed' = [probed EXCEPT ![key] = IF found THEN "present" ELSE "absent"]

Step(name) == steps' = Append(steps, name)

----------------------------------------------------------------------------
(* The states a run can start from. *)

BaseSd ==
    [automate_all |-> FALSE, unit_testing |-> FALSE,
     project_name |-> <<"blog">>, deployed_project_name |-> <<>>,
     region |-> <<"us-east1">>, nested_project |-> FALSE,
     on_macos |-> FALSE, venv |-> <<>>, log_output |-> FALSE]

BaseGcloud ==
    [installed |-> TRUE, project |-> <<"proj">>, project_num |-> <<"1234">>,
     region |-> <<>>]

ProjectNames ==
    { <<"blog">>, <<"my", "_", "site">>, <<"mon", "_", "proj", "é", "t">>,
      <<"stra", "ß", "e">> }

PlainSettings == <<"DEBUG = True", "\n">>

\* settings.py as a project can have it: untouched, already holding the
\* guarded block, or reading the variable in another spelling.
SettingsFiles ==
    { PlainSettings,
      PlainSettings \o <<"if os.environ.get(\"ON_CLOUDRUN\"):", "\n",
                         "    DEBUG = False", "\n">>,
      PlainSettings \o <<"if os.environ.get('ON_CLOUDRUN'):", "\n",
                         "    DEBUG = False", "\n">> }

\* A cloud project another deployment has used: its migration job exists.
UsedProject == {Res("job", <<"migrate">>)}

\* Cloud projects holding resources of other deployments: an unrelated
\* instance, resources whose names contain a name this deployment uses, and
\* the database secret of an earlier deployment whose instance is gone.
OtherResources ==
    { {Res("api", <<"sqladmin.googleapis.com">>), Res("instance", <<"other-inst">>)},
      {Res("api", <<"sqladmin.googleapis.com">>), Res("instance", <<"sd-inst", "-replica">>)},
      {Res("registry", <<"old-", "containers">>)},
      {Res("secret", <<"cloud-run-", "blog", "-secret-key", "-v1">>),
       SecretVersion(<<"cloud-run-", "blog", "-secret-key", "-v1">>, <<"old-key">>)},
      {Res("secret", <<"cloud-run-", "blog", "-database-url">>),
       SecretVersion(<<"cloud-run-", "blog", "-database-url">>, <<"old-url">>)} }

InitFiles ==
    { [f \in FileNames |->
          CASE f = "settings.py" -> PlainSettings
            [] f = "cloudbuild.yaml" -> IF cb THEN <<"steps:", "\n">> ELSE NOFILE
            [] f = "Procfile" -> IF pf THEN <<"web: gunicorn blog.wsgi">> ELSE NOFILE
            [] OTHER -> NOFILE]
      : cb \in BOOLEAN, pf \in BOOLEAN }

BaseFiles ==
    [f \in FileNames |->
        CASE f = "settings.py" -> PlainSettings
          [] f = "cloudbuild.yaml" -> <<"steps:", "\n">>
          [] OTHER -> NOFILE]

\* The options and the project's files and cloud state vary together; the
\* names and the gcloud configuration vary one at a time.
Scenarios ==
    { [sd |-> [BaseSd EXCEPT !.automate_all = a, !.unit_testing = u],
       gcloud |-> BaseGcloud, files |-> fs, remote |-> rm]
      : a \in BOOLEAN, u \in BOOLEAN, fs \in InitFiles, rm \in {{}, UsedProject} }
    \cup
    { [sd |-> [BaseSd EXCEPT !.project_name = n, !.deployed_project_name = d],
       gcloud |-> BaseGcloud, files |-> BaseFiles, remote |-> {}]
      : n \in ProjectNames, d \in {<<>>, <<"shop">>, <<"caf", "é">>} }
    \cup
    { [sd |-> [BaseSd EXCEPT !.region = r, !.nested_project = x, !.on_macos = x,
                             !.venv = IF x THEN <<"venv">> ELSE <<>>,
                             !.log_output = x],
       gcloud |-> [BaseGcloud EXCEPT !.region = g], files |-> BaseFiles,
       remote |-> {}]
      : r \in {<<>>, <<"platform.sh">>, <<"us-central1">>},
        g \in {<<>>, <<"europe-west1">>}, x \in BOOLEAN }
    \cup
    { [sd |-> BaseSd, gcloud |-> BaseGcloud,
       files |-> [BaseFiles EXCEPT !["settings.py"] = st], remote |-> {}]
      : st \in SettingsFiles }
    \cup
    { [sd |-> BaseSd, gcloud |-> BaseGcloud, files |-> BaseFiles, remote |-> rm]
      : rm \in OtherResources }
    \cup
    { [sd |-> BaseSd, gcloud |-> g, files |-> BaseFiles, remote |-> {}]
      : g \in { [BaseGcloud EXCEPT !.installed = FALSE],
                [BaseGcloud EXCEPT !.project = <<>>],
                [BaseGcloud EXCEPT !.project = <<"a-very-long-project-identifier">>] } }
    \cup
    { [sd |-> [BaseSd EXCEPT !.region = r],
       gcloud |-> [BaseGcloud EXCEPT !.project = <<"a-very-long-project-identifier">>],
       files |-> BaseFiles, remote |-> {}]
      : r \in {<<>>, <<"europe-west1">>} }

ProbeKeys ==
    {"service", "envvar", "registry", "secret_key", "instance", "database",
     "user", "database_secret", "image", "job"}

NoFrame ==
    [secret_name |-> <<>>, secret_value |-> <<>>, secret_envvar |-> "", ret |-> ""]

\* A new PlatformDeployer: __init__ sets no attribute a step reads.
NewRun ==
    /\ self = [a \in Attributes |-> UNSET]
    /\ frame = NoFrame
    /\ pc = "confirm_preliminary"
    /\ status = "running"
    /\ cmd = NoCmd
    /\ shown = {}
    /\ answer = "none"
    /\ probed = [k \in ProbeKeys |-> "none"]
    /\ steps = <<>>
    /\ ignored = {}

Init ==
    /\ \E s \in Scenarios :
        /\ sd = s.sd
        /\ gcloud = s.gcloud
        /\ files = s.files
        /\ remote = s.remote
    /\ runNo = 1
    /\ faults = 0
    /\ outcomes = <<>>
    /\ NewRun

----------------------------------------------------------------------------
(* Messages of deploy_messages.py. *)

confirm_preliminary_msg == <<"***** Deployments to Cloud Run are experimental at this point ***">>
cancel_cloudrun == <<"Okay, cancelling Cloud Run deployment.">>
cli_not_installed == <<"In order to deploy to Cloud Run, you need to install the Google Cloud CLI.">>
no_project_id == <<"A Google Cloud project could not be found.", "$ gcloud config set project PROJECT_ID">>
cancel_no_instance == <<"A database instance is required for deployment.">>
cancel_service_name ==
    <<"A service name could not be generated for you that would be valid in Cloud Run.",
      "$ python manage.py simple_deploy --platform cloudrun --deployed_project_name YOURSERVICENAME">>

confirm_service_name(project_name, service_name) ==
    <<"Your Django project is called ">> \o project_name
    \o <<"We want to call your Cloud Run service ">> \o service_name
    \o <<"Please confirm this is okay.">>

confirm_create_instance(db_cmd) ==
    <<"A Postgres instance is required to continue with deployment.", "$ ">> \o db_cmd

no_database_password(database_user, database_instance) ==
    <<"A database user exists, but there's no secret storing it's password.",
      "$ gcloud sql users delete ">> \o database_user \o <<" --instance ">>
    \o database_instance

\* The names the messages module defines; deploy.py looks messages up in it
\* as attributes of cloudrun_msgs.
cloudrun_msgs ==
    {"confirm_preliminary", "confirm_automate_all", "cancel_cloudrun",
     "cli_not_installed", "no_project_id", "no_cloudrun_region",
     "create_app_failed", "cancel_no_instance", "cancel_service_name",
     "confirm_use_org_name", "confirm_create_instance", "success_msg",
     "success_msg_automate_all", "confirm_service_name", "no_database_password"}

success_msg(log_output) ==
    <<"--- Your project is now configured for deployment on Cloud Run ---">>
    \o (IF log_output
        THEN <<"- You can find a full record of this configuration in the simple_deploy_logs directory.">>
        ELSE <<>>)

success_msg_automate_all(deployed_url) ==
    <<"--- Your project should now be deployed on Cloud Run ---",
      "- You can also visit your project at ">> \o deployed_url

----------------------------------------------------------------------------
(* The order of the calls. *)

\* deploy() with the registry created before the placeholder service.
deploy_registry_first ==
    << "_get_googlecloud_project", "_get_googlerun_region", "_get_service_name",
       "_enable_apis", "_update_iam", "_create_registry",
       "_get_cloudrun_service_url", "_set_on_cloudrun", "_create_placeholder",
       "_configure_secret_key", "_create_db",
       "_generate_procfile", "_add_gcloudignore", "_add_cloudbuild_yaml",
       "_modify_settings", "_add_python_packages",
       "_create_container", "_create_migrate_job",
       "_conclude_automate_all", "_show_success_message" >>

\* deploy() with the concluding build before the image and the job.
deploy_conclude_early ==
    << "_get_googlecloud_project", "_get_googlerun_region", "_get_service_name",
       "_enable_apis", "_update_iam", "_create_placeholder",
       "_get_cloudrun_service_url", "_set_on_cloudrun", "_create_registry",
       "_configure_secret_key", "_create_db",
       "_generate_procfile", "_add_gcloudignore", "_add_cloudbuild_yaml",
       "_modify_settings", "_add_python_packages",
       "_conclude_automate_all", "_create_container", "_create_migrate_job",
       "_show_success_message" >>

\* deploy() with the image and the job made before the local configuration.
deploy_generation_first ==
    << "_get_googlecloud_project", "_get_googlerun_region", "_get_service_name",
       "_enable_apis", "_update_iam", "_create_placeholder",
       "_get_cloudrun_service_url", "_set_on_cloudrun", "_create_registry",
       "_configure_secret_key", "_create_db",
       "_create_container", "_create_migrate_job",
       "_generate_procfile", "_add_gcloudignore", "_add_cloudbuild_yaml",
       "_modify_settings", "_add_python_packages",
       "_conclude_automate_all", "_show_success_message" >>

\* deploy(): the steps, in the order deploy calls them.
deploy ==
    << "_get_googlecloud_project", "_get_googlerun_region", "_get_service_name",
       "_enable_apis", "_update_iam", "_create_placeholder",
       "_get_cloudrun_service_url", "_set_on_cloudrun", "_create_registry",
       "_configure_secret_key", "_create_db",
       "_generate_procfile", "_add_gcloudignore", "_add_cloudbuild_yaml",
       "_modify_settings", "_add_python_packages",
       "_create_container", "_create_migrate_job",
       "_conclude_automate_all", "_show_success_message" >>

\* simple_deploy.py calls the deployer's public methods, deploy last.
simple_deploy == <<"confirm_preliminary", "validate_platform">> \o deploy

\* Where control goes when method m returns.
Return(m) ==
    LET i == CHOOSE k \in 1..Len(simple_deploy) : simple_deploy[k] = m
    IN  IF i = Len(simple_deploy) THEN "returned" ELSE simple_deploy[i + 1]

Same == UNCHANGED <<sd, gcloud, runNo>>

\* get_confirmation: the operator's reply.
Replies == {"yes", "no"}

\* How each prompt ends the run when the operator declines:
\* confirm_preliminary and _get_service_name call sys.exit(),
\* _confirm_create_instance raises CommandError.
preliminary_declined == "exit"

service_name_declined_raises == "CommandError"

service_name_declined == "exit"

create_instance_declined == "CommandError"

----------------------------------------------------------------------------
(* Methods called from simple_deploy.py. *)

confirm_preliminary ==
    /\ At("confirm_preliminary")
    /\ NoRun
    /\ IF sd.unit_testing
       THEN /\ answer' = "none"
            /\ shown' = {}
            /\ Goto(Return("confirm_preliminary"))
       ELSE \E confirmed \in Replies :
            /\ answer' = confirmed
            /\ IF confirmed = "yes"
               THEN /\ shown' = {Stdout(confirm_preliminary_msg),
                                 Stdout(<<"  Continuing with Cloud Run deployment...">>)}
                    /\ Goto(Return("confirm_preliminary"))
               ELSE /\ shown' = {Stdout(confirm_preliminary_msg), Stdout(cancel_cloudrun)}
                    /\ End(preliminary_declined)
    /\ UNCHANGED <<files, self, frame, probed, steps>>
    /\ Same

\* validate_platform -> _validate_cli
validate_platform ==
    /\ At("validate_platform")
    /\ LET c == Command("version", <<"gcloud version">>, "lookup", "cli", {}, {})
       IN \E rc \in {0, 1} :
            /\ run(c, rc)
            /\ IF rc # 0
               THEN /\ shown' = {Echo(c), Log(cli_not_installed)}
                    /\ End("CommandError")
               ELSE /\ shown' = {Echo(c)}
                    /\ Goto(Return("validate_platform"))
    /\ answer' = "none"
    /\ UNCHANGED <<files, self, frame, probed, steps>>
    /\ Same

----------------------------------------------------------------------------
(* Setup checking. *)

_get_googlecloud_project ==
    /\ At("_get_googlecloud_project")
    /\ LET c == Command("config get-value project",
                        <<"gcloud config get-value project">>, "lookup", "config", {}, {})
           project_id == gcloud.project
       IN /\ run(c, 0)
          /\ IF project_id = <<>>
             THEN /\ shown' = {Echo(c), Log(<<"Finding active Google Cloud project">>),
                               Log(no_project_id)}
                  /\ self' = self
                  /\ End("CommandError")
             ELSE /\ shown' = {Echo(c), Log(<<"Finding active Google Cloud project">>)}
                  /\ self' = Set([project_id |-> project_id])
                  /\ Goto("_get_googlecloud_project.describe")
    /\ answer' = "none"
    /\ UNCHANGED <<files, frame, probed, steps>>
    /\ Same

_get_googlecloud_project_describe ==
    /\ At("_get_googlecloud_project.describe")
    /\ LET c == Command("projects describe",
                        <<"gcloud projects describe ">> \o self.project_id
                        \o <<" --format 'value(projectNumber)'">>,
                        "lookup", "project", {}, {})
           project_num == gcloud.project_num
       IN /\ run(c, 0)
          /\ shown' = {Echo(c),
                       Log(<<"  Found Google Cloud project: ">> \o self.project_id
                           \o <<", num: ">> \o project_num)}
          /\ self' = Set([project_num |-> project_num])
          /\ Goto(Return("_get_googlecloud_project"))
    /\ answer' = "none"
    /\ UNCHANGED <<files, frame, probed, steps>>
    /\ Same

default_region_europe == <<"europe-west1">>

\* _get_googlerun_region, line 531: the region used when none is configured.
default_region == <<"us-central1">>

_get_googlerun_region ==
    /\ At("_get_googlerun_region")
    /\ IF sd.region # <<>> /\ ~Contains(<<"platform.sh">>, sd.region)
       THEN /\ NoRun
            /\ self' = Set([region |-> sd.region])
            /\ shown' = {Log(<<"  Using region: ">> \o sd.region)}
       ELSE LET c == Command("config get-value run/region",
                             <<"gcloud config get-value run/region">>,
                             "lookup", "config", {}, {})
                region == gcloud.region
            IN /\ run(c, 0)
               /\ IF region = <<>>
                  THEN /\ self' = Set([region |-> default_region])
                       /\ shown' = {Echo(c), Log(<<"  No configuration found. Using 'us-central1'.">>)}
                  ELSE /\ self' = Set([region |-> region])
                       /\ shown' = {Echo(c), Log(<<"  Using gcloud configured region: ">> \o region)}
    /\ Goto(Return("_get_googlerun_region"))
    /\ answer' = "none"
    /\ UNCHANGED <<files, frame, probed, steps>>
    /\ Same

\* _get_service_name, lines 136-150: the name derived from the project name.
derived_service_name(project_name) == Replace(project_name, "_", <<"-">>)

\* _get_service_name, line 167: the name stored for the later steps.
stored_service_name(service_name, ascii_service_name) == service_name

needs_confirmation_never(service_name, ascii_service_name) == FALSE

\* _get_service_name, line 153: "if major changes occured, confirm with user".
needs_confirmation(service_name, ascii_service_name) ==
    ascii_service_name # service_name

_get_service_name ==
    /\ At("_get_service_name")
    /\ NoRun
    /\ LET project_name == IF sd.deployed_project_name # <<>>
                           THEN sd.deployed_project_name ELSE sd.project_name
           service_name == derived_service_name(project_name)
           ascii_service_name == anyascii(service_name)
           stored == Set([service_name |->
                            stored_service_name(service_name, ascii_service_name)])
           done == Log(<<"  Django project: ">> \o project_name
                       \o <<". Cloud Run service: ">> \o service_name)
       IN IF needs_confirmation(service_name, ascii_service_name)
          THEN \E confirmed \in Replies :
               /\ answer' = confirmed
               /\ IF confirmed = "yes"
                  THEN /\ shown' = {Stdout(confirm_service_name(project_name, ascii_service_name)), done}
                       /\ self' = stored
                       /\ Goto(Return("_get_service_name"))
                  ELSE /\ shown' = {Stdout(confirm_service_name(project_name, ascii_service_name)),
                                    Log(cancel_service_name)}
                       /\ self' = self
                       /\ End(service_name_declined)
          ELSE /\ answer' = "none"
               /\ shown' = {done}
               /\ self' = stored
               /\ Goto(Return("_get_service_name"))
    /\ UNCHANGED <<files, frame, probed, steps>>
    /\ Same

----------------------------------------------------------------------------
(* Resource creation: APIs, IAM, placeholder service, URL, flag, registry. *)

\* Substring matching over the lines a command printed.
InOutput(target, lines) == \E l \in lines : Contains(target, l)

\* The Cloud SQL Admin API, one of the services _enable_apis enables; the
\* gcloud sql commands fail without it.
SqlApi == Res("api", <<"sqladmin.googleapis.com">>)

Service == Res("service", self.service_name)

_enable_apis ==
    /\ At("_enable_apis")
    /\ LET c == Command("services enable",
                        <<"gcloud services enable run.googleapis.com iam.googleapis.com ...">>,
                        "update", "apis", {}, {SqlApi})
       IN \E rc \in {0, 1} :
            /\ run(c, rc)
            /\ shown' = {Echo(c), Log(<<"Enabling Google Cloud APIs...">>),
                         Log(<<"  APIs enabled.">>)}
    /\ Step("apis")
    /\ Goto(Return("_enable_apis"))
    /\ answer' = "none"
    /\ UNCHANGED <<files, self, frame, probed>>
    /\ Same

_update_iam ==
    /\ At("_update_iam")
    /\ LET cloudrun_sa == self.project_num \o <<"-compute@developer.gserviceaccount.com">>
           cloudbuild_sa == self.project_num \o <<"@cloudbuild.gserviceaccount.com">>
           c == Command("iam service-accounts add-iam-policy-binding",
                        <<"gcloud iam service-accounts add-iam-policy-binding ">>
                        \o cloudrun_sa \o <<" --member serviceAccount:">> \o cloudbuild_sa
                        \o <<" --role roles/iam.serviceAccountUser">>,
                        "update", "iam", {}, {})
       IN /\ self' = Set([cloudrun_sa |-> cloudrun_sa, cloudbuild_sa |-> cloudbuild_sa])
          /\ \E rc \in {0, 1} :
               /\ run(c, rc)
               /\ shown' = {Echo(c), Log(<<"Configuring IAM...">>)}
    /\ Step("iam")
    /\ Goto("_update_iam.project")
    /\ answer' = "none"
    /\ UNCHANGED <<files, frame, probed>>
    /\ Same

_update_iam_project ==
    /\ At("_update_iam.project")
    /\ LET c == Command("projects add-iam-policy-binding",
                        <<"gcloud projects add-iam-policy-binding ">> \o self.project_id
                        \o <<" --member serviceAccount:">> \o self.cloudbuild_sa
                        \o <<" --role roles/run.developer">>,
                        "update", "iam", {}, {})
       IN \E rc \in {0, 1} :
            /\ run(c, rc)
            /\ shown' = {Echo(c), Log(<<"  Updated IAM.">>)}
    /\ Goto(Return("_update_iam"))
    /\ answer' = "none"
    /\ UNCHANGED <<files, self, frame, probed, steps>>
    /\ Same

_create_placeholder ==
    /\ At("_create_placeholder")
    /\ LET c == Command("run services describe",
                        <<"gcloud run services describe ">> \o self.service_name
                        \o <<" --region ">> \o self.region,
                        "probe", "service", {Service}, {})
       IN \E return_code \in {0, 1} :
            /\ run(c, return_code)
            /\ Probed("service", return_code = 0)
            /\ IF return_code = 0
               THEN /\ shown' = {Echo(c), Log(<<"  Found placeholder service">>)}
                    /\ Goto(Return("_create_placeholder"))
               ELSE /\ shown' = {Echo(c)}
                    /\ Goto("_create_placeholder.deploy")
    /\ Step("placeholder")
    /\ answer' = "none"
    /\ UNCHANGED <<files, self, frame>>
    /\ Same

_create_placeholder_deploy ==
    /\ At("_create_placeholder.deploy")
    /\ LET c == Command("run deploy",
                        <<"gcloud run deploy ">> \o self.service_name
                        \o <<" --region ">> \o self.region
                        \o <<" --image gcr.io/cloudrun/hello --allow-unauthenticated">>,
                        "create", "service", {}, {Service})
       IN \E rc \in {0, 1} :
            /\ run(c, rc)
            /\ shown' = {Echo(c), Log(<<"  Placeholder service created.">>)}
    /\ Goto(Return("_create_placeholder"))
    /\ answer' = "none"
    /\ UNCHANGED <<files, self, frame, probed, steps>>
    /\ Same

\* The URL Cloud Run gives a service.
ServiceUrl(name) == <<"https://">> \o name \o <<".a.run.app">>

_get_cloudrun_service_url ==
    /\ At("_get_cloudrun_service_url")
    /\ LET c == Command("run services describe --format url",
                        <<"gcloud run services describe ">> \o self.service_name
                        \o <<" --region ">> \o self.region
                        \o <<" --format value(status.url)">>,
                        "lookup", "service", {Service}, {})
       IN \E rc \in {0, 1} :
            LET return_str == IF rc = 0 THEN ServiceUrl(self.service_name) ELSE <<>>
            IN /\ run(c, rc)
               /\ shown' = {Echo(c), Log(<<"  ">> \o return_str)}
               /\ self' = Set([deployed_url |-> return_str])
    /\ Step("url")
    /\ Goto(Return("_get_cloudrun_service_url"))
    /\ answer' = "none"
    /\ UNCHANGED <<files, frame, probed>>
    /\ Same

OnCloudrun == Res("envvar", <<"ON_CLOUDRUN">>)

_set_on_cloudrun ==
    /\ At("_set_on_cloudrun")
    /\ LET c == Command("run services describe --format env",
                        <<"gcloud run services describe ">> \o self.service_name
                        \o <<" --region ">> \o self.region
                        \o <<" --format value(spec.template.spec.containers[0].env)">>,
                        "probe", "envvar", {Service}, {})
       IN \E rc \in {0, 1} :
            LET return_str == IF rc = 0 THEN Listed("envvar") ELSE {}
                found == InOutput(<<"ON_CLOUDRUN">>, return_str)
            IN /\ run(c, rc)
               /\ Probed("envvar", found)
               /\ IF found
                  THEN /\ shown' = {Echo(c), Log(<<"  Found ON_CLOUDRUN in existing envvars.">>)}
                       /\ Goto(Return("_set_on_cloudrun"))
                  ELSE /\ shown' = {Echo(c)}
                       /\ Goto("_set_on_cloudrun.update")
    /\ Step("envvar")
    /\ answer' = "none"
    /\ UNCHANGED <<files, self, frame>>
    /\ Same

_set_on_cloudrun_update ==
    /\ At("_set_on_cloudrun.update")
    /\ LET c == Command("run services update --set-env-vars",
                        <<"gcloud run services update ">> \o self.service_name
                        \o <<" --region ">> \o self.region
                        \o <<" --set-env-vars ON_CLOUDRUN=1">>,
                        "create", "envvar", {Service}, {OnCloudrun})
       IN \E rc \in {0, 1} :
            /\ run(c, rc)
            /\ shown' = {Echo(c), Log(<<"  Set ON_CLOUDRUN envvar.">>)}
    /\ Goto(Return("_set_on_cloudrun"))
    /\ answer' = "none"
    /\ UNCHANGED <<files, self, frame, probed, steps>>
    /\ Same

_create_registry ==
    /\ At("_create_registry")
    /\ LET artifact_registry == <<"containers">>
           c == Command("artifacts repositories list",
                        <<"gcloud artifacts repositories list --location ">> \o self.region,
                        "probe", "registry", {}, {})
           return_str == Listed("registry")
           found == InOutput(artifact_registry, return_str)
       IN /\ self' = Set([artifact_registry |-> artifact_registry])
          /\ run(c, 0)
          /\ Probed("registry", found)
          /\ IF found
             THEN /\ shown' = {Echo(c), Log(<<"  Artifact Registry found.">>)}
                  /\ Goto(Return("_create_registry"))
             ELSE /\ shown' = {Echo(c)}
                  /\ Goto("_create_registry.create")
    /\ Step("registry")
    /\ answer' = "none"
    /\ UNCHANGED <<files, frame>>
    /\ Same

_create_registry_create ==
    /\ At("_create_registry.create")
    /\ LET c == Command("artifacts repositories create",
                        <<"gcloud artifacts repositories create ">> \o self.artifact_registry
                        \o <<" --repository-format=docker --location ">> \o self.region,
                        "create", "registry", {},
                        {Res("registry", self.artifact_registry)})
       IN \E rc \in {0, 1} :
            /\ run(c, rc)
            /\ shown' = {Echo(c), Log(<<"  Created Artifact Registry">>)}
    /\ Goto(Return("_create_registry"))
    /\ answer' = "none"
    /\ UNCHANGED <<files, self, frame, probed, steps>>
    /\ Same

----------------------------------------------------------------------------
(* Secrets. *)

_check_if_secret_exists(secret_name) == InOutput(secret_name, Listed("secret"))

SecretsList == Command("secrets list", <<"gcloud secrets list">>, "probe", "secret", {}, {})

_configure_secret_key ==
    /\ At("_configure_secret_key")
    /\ NoRun
    /\ LET secret_key_name == <<"cloud-run-">> \o self.service_name \o <<"-secret-key">>
           secret_key_value == <<_get_random_string("secret-key")>>
       IN /\ self' = Set([secret_key_name |-> secret_key_name])
          /\ IF ~sd.unit_testing
             THEN /\ shown' = {Log(<<"Generating a new secret key">>)}
                  /\ frame' = [secret_name |-> secret_key_name,
                               secret_value |-> secret_key_value,
                               secret_envvar |-> "SECRET_KEY",
                               ret |-> Return("_configure_secret_key")]
                  /\ Step("secret_key")
                  /\ Goto("_create_and_assign_secret")
             ELSE /\ shown' = {}
                  /\ frame' = frame
                  /\ steps' = steps
                  /\ Goto(Return("_configure_secret_key"))
    /\ answer' = "none"
    /\ UNCHANGED <<files, probed>>
    /\ Same

SecretKey(envvar) == IF envvar = "SECRET_KEY" THEN "secret_key" ELSE "database_secret"

secret_create_always(secret_exists) == TRUE

\* _create_and_assign_secret, lines 665-668: the secret is created only in
\* the else branch of `if secret_exists`.
secret_create(secret_exists) == ~secret_exists

_create_and_assign_secret ==
    /\ At("_create_and_assign_secret")
    /\ LET secret_exists == _check_if_secret_exists(frame.secret_name)
       IN /\ run(SecretsList, 0)
          /\ Probed(SecretKey(frame.secret_envvar), secret_exists)
          /\ IF ~secret_create(secret_exists)
             THEN /\ shown' = {Echo(SecretsList), Log(<<"Secret exists.">>)}
                  /\ Goto("_create_and_assign_secret.bind")
             ELSE /\ shown' = {Echo(SecretsList), Log(<<"Secret doesn't exist.">>)}
                  /\ Goto("_create_and_assign_secret.create")
    /\ answer' = "none"
    /\ UNCHANGED <<files, self, frame, steps>>
    /\ Same

_create_and_assign_secret_create ==
    /\ At("_create_and_assign_secret.create")
    /\ LET c == Command("secrets create",
                        <<"gcloud secrets create ">> \o frame.secret_name
                        \o <<" --data-file ", "/tmp/tmpfile">>,
                        "create", "secret", {},
                        {Res("secret", frame.secret_name),
                         SecretVersion(frame.secret_name, frame.secret_value)})
       IN \E rc \in {0, 1} :
            /\ run(c, rc)
            /\ shown' = {Echo(c), Log(<<" Secret ">> \o frame.secret_name \o <<" created.">>)}
    /\ Goto("_create_and_assign_secret.bind")
    /\ answer' = "none"
    /\ UNCHANGED <<files, self, frame, probed, steps>>
    /\ Same

_create_and_assign_secret_bind ==
    /\ At("_create_and_assign_secret.bind")
    /\ LET c == Command("secrets add-iam-policy-binding",
                        <<"gcloud secrets add-iam-policy-binding ">> \o frame.secret_name
                        \o <<" --member serviceAccount:">> \o self.cloudrun_sa
                        \o <<" --role roles/secretmanager.secretAccessor">>,
                        "update", "secret", {Res("secret", frame.secret_name)}, {})
       IN \E rc \in {0, 1} :
            /\ run(c, rc)
            /\ shown' = {Echo(c), Log(<<"  Permissions updated.">>)}
    /\ Goto("_create_and_assign_secret.assign")
    /\ answer' = "none"
    /\ UNCHANGED <<files, self, frame, probed, steps>>
    /\ Same

_create_and_assign_secret_assign ==
    /\ At("_create_and_assign_secret.assign")
    /\ LET c == Command("run services update --update-secrets",
                        <<"gcloud run services update ">> \o self.service_name
                        \o <<" --region ">> \o self.region
                        \o <<" --update-secrets ", frame.secret_envvar, "=">>
                        \o frame.secret_name \o <<":latest">>,
                        "update", "service",
                        {Service, Res("secret", frame.secret_name)}, {})
       IN \E rc \in {0, 1} :
            /\ run(c, rc)
            /\ shown' = {Echo(c), Log(<<"    Assigned secret.">>)}
    /\ Goto(frame.ret)
    /\ frame' = NoFrame
    /\ answer' = "none"
    /\ UNCHANGED <<files, self, probed, steps>>
    /\ Same

----------------------------------------------------------------------------
(* Database: instance, database, user and secret, association. *)

Instance == Res("instance", self.instance_name)

\* What `gcloud sql instances list` prints.
SqlInstancesList ==
    IF Listed("instance") = {} THEN {<<"Listed 0 items", ".">>} ELSE Listed("instance")

\* _check_if_dbinstance_exists: the classification of the listing.
_check_if_dbinstance_exists_assume(return_str, instance_name) ==
    IF InOutput(<<"Listed 0 items">>, return_str) THEN FALSE
    ELSE IF InOutput(instance_name, return_str) THEN TRUE
    ELSE TRUE

_check_if_dbinstance_exists(return_str, instance_name) ==
    IF InOutput(<<"Listed 0 items">>, return_str) THEN FALSE
    ELSE IF InOutput(instance_name, return_str) THEN TRUE
    ELSE FALSE

_check_if_db_exists(return_str, database_name) == InOutput(database_name, return_str)

_check_if_dbuser_exists(return_str, database_user) == InOutput(database_user, return_str)

\* _create_db, lines 586-589: the command without its password.
instance_create_cmd ==
    <<"gcloud sql instances create ">> \o self.instance_name
    \o <<" --database-version POSTGRES_14 --cpu 2 --memory 4GB --region ">>
    \o self.region \o <<" --project ">> \o self.project_id \o <<" ">>

cmd_redacted == instance_create_cmd \o <<"--root-password ", "[REDACTED]">>

\* _create_db, line 602: the command text handed to run().
instance_create_run_text == instance_create_cmd \o <<"--root-password ">> \o self.instance_pass

_create_db ==
    /\ At("_create_db")
    /\ NoRun
    /\ LET instance_name == <<"sd-inst">>
           database_name == <<"sd-db">>
           instance_fqn == self.project_id \o <<":">> \o self.region \o <<":">> \o instance_name
           fqstring == <<"/cloudsql/">> \o self.project_id \o <<":">> \o self.region
                       \o <<":">> \o instance_name \o <<"/">> \o database_name
       IN /\ self' = Set([instance_name |-> instance_name,
                          database_name |-> database_name,
                          database_user |-> <<"django">>,
                          instance_fqn |-> instance_fqn,
                          database_pass |-> <<_get_random_string("database-pass")>>,
                          instance_pass |-> <<_get_random_string("instance-pass")>>,
                          database_secret |-> <<"cloud-run-">> \o self.service_name
                                              \o <<"-database-url">>])
          /\ IF len(fqstring) > psql_max_name_length
             THEN \* The argument of CommandError is evaluated first: the
                  \* lookup of the message in cloudrun_msgs.
                  /\ shown' = {Log(<<"Running database setup...">>)}
                  /\ IF "database_name_too_long" \in cloudrun_msgs
                     THEN End("CommandError")
                     ELSE End("AttributeError")
             ELSE /\ shown' = {Log(<<"Running database setup...">>)}
                  /\ Goto("_create_db.instance")
    /\ answer' = "none"
    /\ UNCHANGED <<files, frame, probed, steps>>
    /\ Same

_create_db_instance ==
    /\ At("_create_db.instance")
    /\ LET c == Command("sql instances list", <<"gcloud sql instances list">>,
                        "probe", "instance", {SqlApi}, {})
       IN \E rc \in {0, 1} :
            LET return_str == IF rc = 0 THEN SqlInstancesList ELSE {}
                instance_exists == _check_if_dbinstance_exists(return_str, self.instance_name)
            IN /\ run(c, rc)
               /\ Probed("instance", instance_exists)
               /\ IF instance_exists
                  THEN /\ shown' = {Echo(c), Log(<<"    Found existing instance.">>)}
                       /\ Goto("_create_db.database")
                  ELSE /\ shown' = {Echo(c), Log(<<"    Create a new Postgres database (this may take a while)...">>)}
                       /\ Goto("_create_db.confirm")
    /\ Step("instance")
    /\ answer' = "none"
    /\ UNCHANGED <<files, self, frame>>
    /\ Same

confirmation_skipped_always == TRUE

\* No prompt: `if not self.sd.automate_all` in _create_db, and
\* `if self.sd.unit_testing: return` in _confirm_create_instance.
confirmation_skipped == sd.automate_all \/ sd.unit_testing

\* _create_db line 597-598 and _confirm_create_instance.
_confirm_create_instance ==
    /\ At("_create_db.confirm")
    /\ NoRun
    /\ IF confirmation_skipped
       THEN /\ answer' = "none"
            /\ shown' = {}
            /\ Goto("_create_db.create_instance")
       ELSE \E confirmed \in Replies :
            /\ answer' = confirmed
            /\ shown' = {Log(confirm_create_instance(cmd_redacted))}
                        \cup (IF confirmed = "yes" THEN {} ELSE {Log(cancel_no_instance)})
            /\ IF confirmed = "yes"
               THEN Goto("_create_db.create_instance")
               ELSE End(create_instance_declined)
    /\ UNCHANGED <<files, self, frame, probed, steps>>
    /\ Same

_create_db_create_instance ==
    /\ At("_create_db.create_instance")
    /\ LET c == [Command("sql instances create", instance_create_run_text,
                         "create", "instance", {SqlApi}, {Instance})
                 EXCEPT !.stream = TRUE]
       IN \E rc \in {0, 1} :
            /\ run(c, rc)
            /\ shown' = {Echo(c), Log(<<"    Created Postgres instance">>)}
    /\ Goto("_create_db.database")
    /\ answer' = "none"
    /\ UNCHANGED <<files, self, frame, probed, steps>>
    /\ Same

_create_db_database ==
    /\ At("_create_db.database")
    /\ LET c == Command("sql databases list",
                        <<"gcloud sql databases list --instance ">> \o self.instance_name,
                        "probe", "database", {Instance}, {})
       IN \E rc \in {0, 1} :
            LET return_str == IF rc = 0 THEN Listed("database") ELSE {}
                db_exists == _check_if_db_exists(return_str, self.database_name)
            IN /\ run(c, rc)
               /\ Probed("database", db_exists)
               /\ IF db_exists
                  THEN /\ shown' = {Echo(c), Log(<<"    Database exists, using that one.">>)}
                       /\ Goto("_create_db.user")
                  ELSE /\ shown' = {Echo(c), Log(<<"    Creating new database...">>)}
                       /\ Goto("_create_db.create_database")
    /\ Step("database")
    /\ answer' = "none"
    /\ UNCHANGED <<files, self, frame>>
    /\ Same

_create_db_create_database ==
    /\ At("_create_db.create_database")
    /\ LET c == Command("sql databases create",
                        <<"gcloud sql databases create ">> \o self.database_name
                        \o <<" --instance ">> \o self.instance_name,
                        "create", "database", {Instance},
                        {Res("database", self.database_name)})
       IN \E rc \in {0, 1} :
            /\ run(c, rc)
            /\ shown' = {Echo(c), Log(<<"    Created Postgres database">>)}
    /\ Goto("_create_db.user")
    /\ answer' = "none"
    /\ UNCHANGED <<files, self, frame, probed, steps>>
    /\ Same

_create_db_user ==
    /\ At("_create_db.user")
    /\ LET c == Command("sql users list",
                        <<"gcloud sql users list --instance ">> \o self.instance_name
                        \o <<" --filter name:">> \o self.database_user,
                        "probe", "user", {Instance}, {})
       IN \E rc \in {0, 1} :
            LET return_str == IF rc = 0 THEN Listed("user") ELSE {}
                user_exists == _check_if_dbuser_exists(return_str, self.database_user)
            IN /\ run(c, rc)
               /\ Probed("user", user_exists)
               /\ shown' = {Echo(c), Log(<<"  Looking for a database username and secret...">>)}
    /\ Step("user_secret")
    /\ Goto("_create_db.secret")
    /\ answer' = "none"
    /\ UNCHANGED <<files, self, frame>>
    /\ Same

\* The branch with the user probe forgotten.
user_secret_branch_no_user_check(user_exists, secret_exists) ==
    IF secret_exists THEN "okay" ELSE "create"

\* The branch with the inconsistency passed over.
user_secret_branch_silent(user_exists, secret_exists) ==
    IF user_exists /\ secret_exists THEN "okay"
    ELSE IF ~user_exists /\ ~secret_exists THEN "create"
    ELSE "skip"

\* _create_db, lines 623-632: what follows the two probes.
user_secret_branch(user_exists, secret_exists) ==
    IF user_exists /\ secret_exists THEN "okay"
    ELSE IF user_exists /\ ~secret_exists THEN "error"
    ELSE IF ~user_exists /\ ~secret_exists THEN "create"
    ELSE "skip"

_create_db_secret ==
    /\ At("_create_db.secret")
    /\ LET user_exists == probed["user"] = "present"
           secret_exists == _check_if_secret_exists(self.database_secret)
           branch == user_secret_branch(user_exists, secret_exists)
       IN /\ run(SecretsList, 0)
          /\ Probed("database_secret", secret_exists)
          /\ CASE branch = "okay" ->
                    /\ shown' = {Echo(SecretsList),
                                 Log(<<"    Database user and secret exists. This is okay.">>)}
                    /\ Goto("_create_db.associate")
               [] branch = "error" ->
                    /\ shown' = {Echo(SecretsList),
                                 Log(<<"    Database user exists, but password not stored. I'm sad.">>),
                                 Log(no_database_password(self.database_user, self.instance_name))}
                    /\ End("CommandError")
               [] branch = "create" ->
                    /\ shown' = {Echo(SecretsList),
                                 Log(<<"    Database user and secret don't exist. Creating.">>)}
                    /\ Goto("_create_db.create_user")
               [] OTHER ->
                    /\ shown' = {Echo(SecretsList)}
                    /\ Goto("_create_db.associate")
    /\ answer' = "none"
    /\ UNCHANGED <<files, self, frame, steps>>
    /\ Same

urllib_parse_quote(text) == Replace(Replace(text, "/", <<"%2F">>), ":", <<"%3A">>)

_create_db_create_user ==
    /\ At("_create_db.create_user")
    /\ LET c == Command("sql users create",
                        <<"gcloud sql users create ">> \o self.database_user
                        \o <<" --instance ">> \o self.instance_name
                        \o <<" --password ">> \o self.database_pass,
                        "create", "user", {Instance},
                        {Res("user", self.database_user)})
           encoded_host == urllib_parse_quote(<<"/", "cloudsql", "/">> \o self.instance_fqn)
           database_url == <<"postgres://">> \o self.database_user \o <<":">>
                           \o self.database_pass \o <<"@">> \o encoded_host
                           \o <<"/">> \o self.database_name
       IN /\ \E rc \in {0, 1} :
               /\ run(c, rc)
               /\ shown' = {Echo(c), Log(<<"    Created database user.">>),
                            Log(<<"    Creating database secret...">>)}
          /\ self' = Set([database_url |-> database_url])
          /\ frame' = [secret_name |-> self.database_secret,
                       secret_value |-> database_url,
                       secret_envvar |-> "DATABASE_URL",
                       ret |-> "_create_db.associate"]
    /\ Goto("_create_and_assign_secret")
    /\ answer' = "none"
    /\ UNCHANGED <<files, probed, steps>>
    /\ Same

_create_db_associate ==
    /\ At("_create_db.associate")
    /\ LET c == Command("run services update --set-cloudsql-instances",
                        <<"gcloud run services update ">> \o self.service_name
                        \o <<" --region ">> \o self.region
                        \o <<" --set-cloudsql-instances ">> \o self.instance_fqn,
                        "update", "service", {Service}, {})
       IN \E rc \in {0, 1} :
            /\ run(c, rc)
            /\ shown' = {Echo(c), Log(<<"    Associated database.">>)}
    /\ Step("associate")
    /\ Goto(Return("_create_db"))
    /\ answer' = "none"
    /\ UNCHANGED <<files, self, frame, probed>>
    /\ Same

----------------------------------------------------------------------------
(* Configuration: the local file mutators. *)

Exists(f) == files[f] # NOFILE

Write(f, content) == files' = [files EXCEPT ![f] = content]

migrate_command ==
    "migrate: python manage.py migrate && python manage.py collectstatic --noinput"

proc_command ==
    IF sd.nested_project
    THEN <<"web: gunicorn ">> \o sd.project_name \o <<".">> \o sd.project_name
         \o <<".wsgi --log-file -">>
    ELSE <<"web: gunicorn ">> \o sd.project_name \o <<".wsgi --log-file -">>

\* _generate_procfile: the content of Procfile after the call.
procfile_after(before) ==
    IF before # NOFILE
    THEN before \o <<"\n", migrate_command>>
    ELSE proc_command \o <<migrate_command>>

_generate_procfile ==
    /\ At("_generate_procfile")
    /\ NoRun
    /\ Write("Procfile", procfile_after(files["Procfile"]))
    /\ shown' = IF Exists("Procfile")
                THEN {Log(<<"  Found existing Procfile.">>),
                      Log(<<"  Updated Procfile with following process:">>),
                      Log(<<migrate_command>>)}
                ELSE {Log(<<"  No Procfile found. Generating Procfile...">>),
                      Log(proc_command), Log(<<migrate_command>>)}
    /\ Goto(Return("_generate_procfile"))
    /\ answer' = "none"
    /\ UNCHANGED <<self, frame, probed, steps>>
    /\ Same

gcloudignore_str ==
    <<".git/", "\n">>
    \o (IF sd.venv # <<>> THEN <<"\n">> \o sd.venv \o <<"/", "\n">> ELSE <<>>)
    \o <<"\n", "__pycache__/", "\n", "*.pyc", "\n">>
    \o <<"\n", "*.sqlite3", "\n">>
    \o (IF sd.on_macos THEN <<"\n", ".DS_Store", "\n">> ELSE <<>>)

_add_gcloudignore ==
    /\ At("_add_gcloudignore")
    /\ NoRun
    /\ IF Exists(".gcloudignore")
       THEN /\ files' = files
            /\ shown' = {Log(<<"  Found existing .gcloudignore file. Not overwriting this file.">>)}
       ELSE /\ Write(".gcloudignore", gcloudignore_str)
            /\ shown' = {Log(<<"  Wrote .gcloudignore file.">>)}
    /\ Goto(Return("_add_gcloudignore"))
    /\ answer' = "none"
    /\ UNCHANGED <<self, frame, probed, steps>>
    /\ Same

\* The cloudbuild.yaml template rendered against the context.
cloudbuild_yaml(context) ==
    <<"steps:", "\n", "service: ">> \o context.service \o <<"\n", "region: ">>
    \o context.region \o <<"\n", "image: ">> \o context.image_name
    \o <<"\n", "job: ">> \o context.job_name \o <<"\n">>

_add_cloudbuild_yaml ==
    /\ At("_add_cloudbuild_yaml")
    /\ NoRun
    /\ IF Exists("cloudbuild.yaml")
       THEN /\ files' = files
            /\ shown' = {Log(<<"  Found existing cloudbuild.yaml file.">>)}
            /\ Goto(Return("_add_cloudbuild_yaml"))
       ELSE IF Unset({"service_name", "region", "image_name", "migrate_job_name"}) # {}
            THEN /\ files' = files
                 /\ shown' = {}
                 /\ End("AttributeError")
            ELSE /\ Write("cloudbuild.yaml",
                          cloudbuild_yaml([service |-> self.service_name,
                                           region |-> self.region,
                                           image_name |-> self.image_name,
                                           job_name |-> self.migrate_job_name]))
                 /\ shown' = {Log(<<"  Generated cloudbuild.yaml">>)}
                 /\ Goto(Return("_add_cloudbuild_yaml"))
    /\ answer' = "none"
    /\ UNCHANGED <<self, frame, probed, steps>>
    /\ Same

settings_marker_other_spelling == "if os.environ.get('ON_CLOUDRUN'):"

settings_marker == "if os.environ.get(\"ON_CLOUDRUN\"):"

\* A template that leaves {{current_settings}} out.
settings_template_overwrite(context) ==
    <<"# --- Settings for Cloud Run ---", "\n", "import os", "\n",
      "if os.environ.get(\"ON_CLOUDRUN\"):", "\n",
      "    ", "ALLOWED_HOSTS.append(\"">> \o context.deployed_url \o <<"\")", "\n">>

\* templates/settings.py rendered against the context: a line is its
\* indentation (four spaces a token), its text and its newline.
settings_template(context) ==
    context.current_settings
    \o <<"\n",
         "\n",
         "\n",
         "# --- Settings for Cloud Run ---", "\n",
         "import os", "\n",
         "\n",
         "if os.environ.get(\"ON_CLOUDRUN\"):", "\n",
         "    ", "# Static file configuration needs to take effect during the build process,", "\n",
         "    ", "#   and when deployed.", "\n",
         "    ", "# from https://whitenoise.evans.io/en/stable/#quickstart-for-django-apps", "\n",
         "    ", "STATIC_ROOT = os.path.join(BASE_DIR, \"staticfiles\")", "\n",
         "    ", "STATIC_URL = \"/static/\"", "\n",
         "    ", "STATICFILES_DIRS = (os.path.join(BASE_DIR, \"static\"),)", "\n",
         "    ", "i = MIDDLEWARE.index(\"django.middleware.security.SecurityMiddleware\")", "\n",
         "    ", "MIDDLEWARE.insert(i + 1, \"whitenoise.middleware.WhiteNoiseMiddleware\")", "\n",
         "\n",
         "    ", "# Use secret, if set, to update DEBUG value.", "\n",
         "    ", "if os.environ.get(\"DEBUG\") == \"FALSE\":", "\n",
         "    ", "    ", "DEBUG = False", "\n",
         "    ", "elif os.environ.get(\"DEBUG\") == \"TRUE\":", "\n",
         "    ", "    ", "DEBUG = True", "\n",
         "\n",
         "    ", "# Set a Cloud Run-specific allowed host.", "\n",
         "    ", "ALLOWED_HOSTS.append(\"">> \o context.deployed_url \o <<"\")", "\n",
         "\n",
         "    ", "# Prevent CSRF \"Origin checking failed\" issue.", "\n",
         "    ", "CSRF_TRUSTED_ORIGINS = [\"https://">> \o context.deployed_url \o <<"\"]", "\n",
         "\n",
         "    ", "# Use the Cloud SQL database.", "\n",
         "    ", "import dj_database_url", "\n",
         "\n",
         "    ", "db_url = os.environ.get(\"DATABASE_URL\")", "\n",
         "    ", "DATABASES[\"default\"] = dj_database_url.parse(db_url)", "\n",
         "\n",
         "    ", "# TODO(glasnt): Remove when jazzband/dj-database-url#181 included in release (1.1.0+)", "\n",
         "    ", "import urllib", "\n",
         "    ", "DATABASES[\"default\"][\"HOST\"] = urllib.parse.unquote(DATABASES[\"default\"][\"HOST\"])">>

_modify_settings ==
    /\ At("_modify_settings")
    /\ NoRun
    /\ LET settings_string == files["settings.py"]
       IN IF Contains(<<settings_marker>>, settings_string)
          THEN /\ files' = files
               /\ shown' = {Log(<<"  Found Cloud Run settings block in settings.py.">>)}
          ELSE /\ Write("settings.py",
                        settings_template(
                            [deployed_url |-> Replace(self.deployed_url, "https://", <<>>),
                             current_settings |-> settings_string]))
               /\ shown' = {Log(<<"  No Cloud Run settings found in settings.py; adding settings...">>)}
    /\ Goto(Return("_modify_settings"))
    /\ answer' = "none"
    /\ UNCHANGED <<self, frame, probed, steps>>
    /\ Same

_add_python_packages ==
    /\ At("_add_python_packages")
    /\ NoRun
    /\ shown' = {Log(<<"Adding packages to project dependencies...">>),
                 Log(<<"  Added 4 dependencies.">>)}
    /\ Goto(Return("_add_python_packages"))
    /\ answer' = "none"
    /\ UNCHANGED <<files, self, frame, probed, steps>>
    /\ Same

----------------------------------------------------------------------------
(* Generation: container image, migration job. *)

_create_container ==
    /\ At("_create_container")
    /\ LET registry_name == self.region \o <<"-docker.pkg.dev/">> \o self.project_id
                            \o <<"/">> \o self.artifact_registry
           image_name == registry_name \o <<"/">> \o self.service_name
           c == Command("artifacts docker images list",
                        <<"gcloud artifacts docker images list ">> \o registry_name,
                        "probe", "image", {Res("registry", self.artifact_registry)}, {})
       IN /\ self' = Set([registry_name |-> registry_name, image_name |-> image_name])
          /\ \E rc \in {0, 1} :
              LET return_str == IF rc = 0 THEN Listed("image") ELSE {}
                  found == InOutput(image_name, return_str)
              IN /\ run(c, rc)
                 /\ Probed("image", found)
                 /\ IF found
                    THEN /\ shown' = {Echo(c), Log(<<"  Image exists.">>)}
                         /\ Goto(Return("_create_container"))
                    ELSE /\ shown' = {Echo(c)}
                         /\ Goto("_create_container.build")
    /\ Step("image")
    /\ answer' = "none"
    /\ UNCHANGED <<files, frame>>
    /\ Same

_create_container_build ==
    /\ At("_create_container.build")
    /\ LET c == [Command("builds submit --pack",
                         <<"gcloud builds submit --pack image=">> \o self.image_name,
                         "create", "image", {Res("registry", self.artifact_registry)},
                         {Res("image", self.image_name)})
                 EXCEPT !.stream = TRUE]
       IN \E rc \in {0, 1} :
            /\ run(c, rc)
            /\ shown' = {Echo(c)}
    /\ Goto(Return("_create_container"))
    /\ answer' = "none"
    /\ UNCHANGED <<files, self, frame, probed, steps>>
    /\ Same

_create_migrate_job ==
    /\ At("_create_migrate_job")
    /\ LET migrate_job_name == <<"migrate">>
           c == Command("beta run jobs describe",
                        <<"gcloud beta run jobs describe ">> \o migrate_job_name
                        \o <<" --region ">> \o self.region,
                        "probe", "job", {Res("job", migrate_job_name)}, {})
       IN /\ self' = Set([migrate_job_name |-> migrate_job_name])
          /\ \E rc \in {0, 1} :
              LET return_str == IF rc = 0 THEN {migrate_job_name} ELSE {}
                  found == InOutput(migrate_job_name, return_str)
              IN /\ run(c, rc)
                 /\ Probed("job", found)
                 /\ IF found
                    THEN /\ shown' = {Echo(c), Log(<<"   Cloud Run job migrate already exists.">>)}
                         /\ Goto(Return("_create_migrate_job"))
                    ELSE /\ shown' = {Echo(c)}
                         /\ Goto("_create_migrate_job.create")
    /\ Step("job")
    /\ answer' = "none"
    /\ UNCHANGED <<files, frame>>
    /\ Same

_create_migrate_job_create ==
    /\ At("_create_migrate_job.create")
    /\ LET c == [Command("beta run jobs create",
                         <<"gcloud beta run jobs create migrate --image ">> \o self.image_name
                         \o <<" --region ">> \o self.region
                         \o <<" --set-secrets DATABASE_URL=">> \o self.database_secret
                         \o <<":latest --set-secrets SECRET_KEY=">> \o self.secret_key_name
                         \o <<":latest --set-cloudsql-instances ">> \o self.instance_fqn
                         \o <<" --set-env-vars ON_CLOUDRUN=1 --command migrate">>,
                         "create", "job", {Res("image", self.image_name)},
                         {Res("job", self.migrate_job_name)})
                 EXCEPT !.fail = TRUE]
       IN \E rc \in {0, 1} :
            /\ run(c, rc)
            /\ IF run_exits(c, rc)
               THEN /\ shown' = {Echo(c)}
                    /\ End("exit1")
               ELSE /\ shown' = {Echo(c), Log(<<"  Created Cloud Run job.">>)}
                    /\ Goto(Return("_create_migrate_job"))
    /\ answer' = "none"
    /\ UNCHANGED <<files, self, frame, probed, steps>>
    /\ Same

----------------------------------------------------------------------------
(* Conclusion. *)

\* self.sd.commit_changes(): the repository holds a commit of the changes.
commit_changes == Write(".git/HEAD", <<"Configured project for deployment.">>)

_conclude_automate_all ==
    /\ At("_conclude_automate_all")
    /\ IF ~sd.automate_all
       THEN /\ NoRun
            /\ files' = files
            /\ shown' = {}
       ELSE LET c == [Command("builds submit", <<"gcloud builds submit">>,
                              "update", "deployment", {}, {})
                      EXCEPT !.stream = TRUE]
            IN \E rc \in {0, 1} :
                 /\ commit_changes
                 /\ run(c, rc)
                 /\ shown' = {Echo(c), Log(<<"Deploying to Cloud Run...">>),
                              Log(self.deployed_url)}
    /\ Goto(Return("_conclude_automate_all"))
    /\ answer' = "none"
    /\ UNCHANGED <<self, frame, probed, steps>>
    /\ Same

_show_success_message ==
    /\ At("_show_success_message")
    /\ NoRun
    /\ shown' = IF sd.automate_all
                THEN {Log(success_msg_automate_all(self.deployed_url))}
                ELSE {Log(success_msg(sd.log_output))}
    /\ End("success")
    /\ answer' = "none"
    /\ UNCHANGED <<files, self, frame, probed, steps>>
    /\ Same

\* The operator runs the command again, on what the last run left behind.
Rerun ==
    /\ status # "running"
    /\ runNo < MaxRuns
    /\ runNo' = runNo + 1
    /\ self' = [a \in Attributes |-> UNSET]
    /\ frame' = NoFrame
    /\ pc' = "confirm_preliminary"
    /\ status' = "running"
    /\ cmd' = NoCmd
    /\ shown' = {}
    /\ answer' = "none"
    /\ probed' = [k \in ProbeKeys |-> "none"]
    /\ steps' = <<>>
    /\ ignored' = {}
    /\ UNCHANGED <<sd, gcloud, remote, files, faults, outcomes>>

Next ==
    \/ confirm_preliminary
    \/ validate_platform
    \/ _get_googlecloud_project
    \/ _get_googlecloud_project_describe
    \/ _get_googlerun_region
    \/ _get_service_name
    \/ _enable_apis
    \/ _update_iam
    \/ _update_iam_project
    \/ _create_placeholder
    \/ _create_placeholder_deploy
    \/ _get_cloudrun_service_url
    \/ _set_on_cloudrun
    \/ _set_on_cloudrun_update
    \/ _create_registry
    \/ _create_registry_create
    \/ _configure_secret_key
    \/ _create_and_assign_secret
    \/ _create_and_assign_secret_create
    \/ _create_and_assign_secret_bind
    \/ _create_and_assign_secret_assign
    \/ _create_db
    \/ _create_db_instance
    \/ _confirm_create_instance
    \/ _create_db_create_instance
    \/ _create_db_database
    \/ _create_db_create_database
    \/ _create_db_user
    \/ _create_db_secret
    \/ _create_db_create_user
    \/ _create_db_associate
    \/ _generate_procfile
    \/ _add_gcloudignore
    \/ _add_cloudbuild_yaml
    \/ _modify_settings
    \/ _add_python_packages
    \/ _create_container
    \/ _create_container_build
    \/ _create_migrate_job
    \/ _create_migrate_job_create
    \/ _conclude_automate_all
    \/ _show_success_message
    \/ Rerun

Spec == Init /\ [][Next]_vars

----------------------------------------------------------------------------
(* Properties. *)

Succeeded(n) == n \in 1..Len(outcomes) /\ outcomes[n] = "success"

\* C1: idempotence of the whole run. In a run that follows a run which
\* reached the success message, no probe-then-create step issues its create
\* command, and every probe made reports the resource present.
C1_SecondRunCreatesNothing ==
    (runNo > 1 /\ Succeeded(runNo - 1))
        => (cmd.role # "create" /\ \A k \in ProbeKeys : probed[k] # "absent")

\* The probe a command's resource is looked for with, "none" if there is none.
ProbeOf(c) ==
    CASE c.op \in {"secrets create", "secrets add-iam-policy-binding",
                   "run services update --update-secrets"} ->
             SecretKey(frame.secret_envvar)
      [] c.op = "run services update --set-cloudsql-instances" -> "instance"
      [] c.kind \in ProbeKeys -> c.kind
      [] OTHER -> "none"

ProbedAbsent(c) == ProbeOf(c) # "none" /\ probed[ProbeOf(c)] = "absent"

\* C2 as stated: probe before create. Every command that creates or changes a
\* remote resource follows a probe for that resource which reported it absent.
C2_EveryMutationProbed == Mutating(cmd) => ProbedAbsent(cmd)

\* C2 as amended: every create command of a probe-then-create step follows a
\* probe of this run for its resource which reported it absent.
C2_CreateFollowsAbsentProbe == cmd.role = "create" => ProbedAbsent(cmd)

C2_Witness ==
    /\ cmd.op = "sql users create"
    /\ probed["user"] = "absent"
    /\ Res("user", <<"django">>) \in remote

\* C3: user+secret consistency. Once the probes of _create_db have reported
\* the database user present and the database-URL secret absent, the run has
\* ended with the CommandError carrying the remediation command, and the
\* secret probe is the last command it issued.
C3_InconsistencyIsFatal ==
    (probed["user"] = "present" /\ probed["database_secret"] = "absent")
        => /\ status = "CommandError"
           /\ cmd.op = "secrets list"
           /\ Log(no_database_password(self.database_user, self.instance_name)) \in shown

C3_Witness ==
    /\ probed["user"] = "present"
    /\ probed["database_secret"] = "absent"
    /\ status = "CommandError"

DatabaseUser == Res("user", <<"django">>)

\* C4: user and secret are one logical step. No run reaches the success
\* message while the database user exists without its secret.
C4_NoSuccessWithUserWithoutSecret ==
    status = "success"
        => ~(DatabaseUser \in remote /\ Res("secret", self.database_secret) \notin remote)

\* C5: service name derivation. The stored service name is the project name
\* (or the explicit name) with underscores replaced by hyphens and non-ASCII
\* characters transliterated.
C5_StoredNameIsTransliterated ==
    self.service_name # UNSET
        => self.service_name =
             anyascii(Replace(IF sd.deployed_project_name # <<>>
                              THEN sd.deployed_project_name ELSE sd.project_name,
                              "_", <<"-">>))

\* C6: redaction. Nothing displayed contains the plaintext root password.
C6_RootPasswordNeverShown ==
    self.instance_pass # UNSET
        => \A t \in shown : ~Contains(self.instance_pass, t.text)

\* C7: exit-code policy. A command that returned non-zero either ended the
\* run or was a probe, and the success message is not reached after a create
\* or update command returned non-zero.
C7_NoFailureIgnored ==
    /\ cmd.rc # 0 => (status # "running" \/ cmd.role = "probe")
    /\ status = "success" => ignored = {}

ExplanationShown(text) == \E t \in shown : t.text = text

\* C8 as stated: declining a confirmation ends the run with a success status.
C8_DeclineExitsCleanly == answer = "no" => status = "exit"

\* C8 as amended: declining the preliminary prompt or the service-name prompt
\* ends the run with sys.exit() (success status) and an explanatory message;
\* declining the create-instance prompt ends it with a CommandError carrying
\* the explanatory message.
C8_DeclineEndsRunWithExplanation ==
    answer = "no"
        => CASE pc = "confirm_preliminary" ->
                    status = "exit" /\ ExplanationShown(cancel_cloudrun)
             [] pc = "_get_service_name" ->
                    status = "exit" /\ ExplanationShown(cancel_service_name)
             [] pc = "_create_db.confirm" ->
                    status = "CommandError" /\ ExplanationShown(cancel_no_instance)
             [] OTHER -> FALSE

C8_Witness ==
    /\ answer = "no"
    /\ pc = "_get_service_name"
    /\ status = "exit"

\* The provisioning order of the remote steps.
ProvisioningOrder ==
    << "apis", "iam", "placeholder", "url", "envvar", "registry", "secret_key",
       "instance", "database", "user_secret", "associate", "image", "job" >>

Rank(s) == CHOOSE k \in 1..Len(ProvisioningOrder) : ProvisioningOrder[k] = s

\* C9: fixed provisioning order. The remote steps a run has started are in
\* the provisioning order, none repeated.
C9_FixedOrder ==
    \A i, j \in 1..Len(steps) : i < j => Rank(steps[i]) < Rank(steps[j])

C9_Witness == steps = ProvisioningOrder /\ status = "success"

\* The marker a local file mutator looks for is present.
MarkerFound(m) ==
    CASE m = "_generate_procfile" -> Exists("Procfile")
      [] m = "_add_gcloudignore" -> Exists(".gcloudignore")
      [] m = "_add_cloudbuild_yaml" -> Exists("cloudbuild.yaml")
      [] m = "_modify_settings" -> Contains(<<settings_marker>>, files["settings.py"])
      [] OTHER -> FALSE

\* C10: a local file mutator that finds its marker leaves the files as they
\* were.
C10_MarkerMeansNoMutation ==
    [][(status = "running" /\ MarkerFound(pc)) => files' = files]_vars

\* The number of guarded blocks in a settings file.
GuardedBlocks(text) ==
    Cardinality({i \in 1..Len(text) : text[i] = "if os.environ.get(\"ON_CLOUDRUN\"):"})

\* The previous run went through _modify_settings.
ModifiedBefore ==
    runNo > 1 /\ outcomes[runNo - 1] \in {"success", "exit1"}

\* C11: settings-file idempotence. A call of _modify_settings that follows an
\* earlier call leaves settings.py as the earlier call left it, and no call
\* leaves more than one guarded block in the file.
C11_SecondCallChangesNothing ==
    [][(At("_modify_settings") /\ pc' # pc)
        => /\ ModifiedBefore => files'["settings.py"] = files["settings.py"]
           /\ GuardedBlocks(files'["settings.py"]) <= 1]_vars

C11_Witness ==
    /\ ModifiedBefore
    /\ status = "running"
    /\ pc = "_add_python_packages"
    /\ files["settings.py"] =
         settings_template([deployed_url |-> Replace(self.deployed_url, "https://", <<>>),
                            current_settings |-> PlainSettings])

\* The values this run stores in secrets, or builds them from.
SecretValues ==
    {self[a] : a \in {b \in {"database_pass", "database_url"} : self[b] # UNSET}}
    \cup (IF frame.secret_value # <<>> THEN {frame.secret_value} ELSE {})

\* C12 as stated: secret values are never displayed. No command echoed by
\* run and no message passed to log contains the secret key, the database
\* password or the database URL; the payload of a secret travels in a
\* temporary file named on the command line.
C12_SecretValuesNeverShown ==
    /\ \A t \in shown : \A v \in SecretValues : ~Contains(v, t.text)
    /\ cmd.op = "secrets create" => Contains(<<" --data-file ", "/tmp/tmpfile">>, cmd.text)

InstanceCreate == "sql instances create"

InstancePrompt == Log(confirm_create_instance(cmd_redacted))

\* C13: confirmation before creating the database instance. The create
\* command is issued only after the instance probe reported absent and only by
\* the step that follows the confirmation step; that step is entered without
\* a prompt under automate-all or under test, and otherwise only on the reply
\* yes to a prompt showing the redacted command; on the reply no the run ends
\* with the explanation and issues nothing.
C13_CreateOnlyAfterApproval ==
    [][/\ (cmd'.op = InstanceCreate /\ cmd.op # InstanceCreate)
            => pc = "_create_db.create_instance" /\ probed["instance"] = "absent"
       /\ (pc' = "_create_db.create_instance" /\ pc # pc')
            => /\ pc = "_create_db.confirm"
               /\ IF sd.automate_all \/ sd.unit_testing
                  THEN answer' = "none" /\ InstancePrompt \notin shown'
                  ELSE answer' = "yes" /\ InstancePrompt \in shown'
       /\ (pc = "_create_db.confirm" /\ answer' = "no")
            => /\ status' # "running"
               /\ {InstancePrompt, Log(cancel_no_instance)} \subseteq shown'
               /\ cmd'.op # InstanceCreate]_vars

C13_Witness ==
    /\ cmd.op = InstanceCreate
    /\ ~sd.automate_all /\ ~sd.unit_testing
    /\ Instance \in remote

\* What the instance listing printed, given the exit status of the command.
InstanceListing(rc) == IF rc = 0 THEN SqlInstancesList ELSE {}

\* C14: classification by the instance probe. The probe step reports absent
\* when the listing says "Listed 0 items", present when the listing holds the
\* instance name, absent for every other listing, the empty output of a failed
\* command included; the run goes on in every case.
C14_InstanceClassification ==
    [][(At("_create_db.instance") /\ pc' # pc)
        => LET out == InstanceListing(cmd'.rc)
           IN /\ status' = "running"
              /\ probed'["instance"] =
                    IF \E l \in out : Contains(<<"Listed 0 items">>, l) THEN "absent"
                    ELSE IF \E l \in out : Contains(<<"sd-inst">>, l) THEN "present"
                    ELSE "absent"]_vars

\* A listing that is not empty and lacks the name is classified absent.
C14_Witness ==
    /\ pc = "_create_db.confirm"
    /\ probed["instance"] = "absent"
    /\ cmd.rc = 0
    /\ Res("instance", <<"other-inst">>) \in remote

C14_FailedListingWitness ==
    /\ pc = "_create_db.confirm"
    /\ probed["instance"] = "absent"
    /\ cmd.rc # 0

\* The resource each probe is looking for.
Target(k) ==
    CASE k = "service" -> Res("service", self.service_name)
      [] k = "registry" -> Res("registry", self.artifact_registry)
      [] k = "secret_key" -> Res("secret", self.secret_key_name)
      [] k = "instance" -> Res("instance", self.instance_name)
      [] k = "database" -> Res("database", self.database_name)
      [] k = "user" -> Res("user", self.database_user)
      [] k = "database_secret" -> Res("secret", self.database_secret)
      [] k = "image" -> Res("image", self.image_name)
      [] k = "job" -> Res("job", self.migrate_job_name)

\* C15 as stated: probes are conservative. A probe reports present only when
\* a resource with exactly the target name exists; a listing of other
\* resources, names containing the target name included, is reported absent.
C15_PresentOnlyIfExactNameExists ==
    \A k \in ProbeKeys \ {"envvar"} : probed[k] = "present" => Target(k) \in remote

NoProjectConfigured == gcloud.project = <<>>

NoRegionConfigured ==
    /\ sd.region = <<>> \/ Contains(<<"platform.sh">>, sd.region)
    /\ gcloud.region = <<>>

\* C16 as stated: configuration errors stop the run. With no active project
\* or no region configured, no command that creates or changes a remote
\* resource is ever issued.
C16_ConfigErrorsStopRun ==
    (NoProjectConfigured \/ NoRegionConfigured) => ~Mutating(cmd)

\* C16 as amended: with no active project the run ends in
\* _get_googlecloud_project with CommandError and the remediation message,
\* before any command that creates or changes a resource; with no region
\* configured the run goes on with the region us-central1.
C16_NoProjectStopsRunRegionDefaults ==
    /\ NoProjectConfigured
         => /\ ~Mutating(cmd)
            /\ pc \in {"confirm_preliminary", "validate_platform", "_get_googlecloud_project"}
            /\ (pc = "_get_googlecloud_project" /\ status # "running")
                 => status = "CommandError" /\ Log(no_project_id) \in shown
    /\ (NoRegionConfigured /\ self.region # UNSET) => self.region = <<"us-central1">>

C16_Witness ==
    /\ NoProjectConfigured
    /\ status = "CommandError"
    /\ Log(no_project_id) \in shown

C16_RegionWitness ==
    /\ NoRegionConfigured
    /\ self.region = <<"us-central1">>
    /\ Mutating(cmd)

----------------------------------------------------------------------------
(* run() on its own: every command, in both modes, with and without fail. *)

\* Commands as deploy hands them to run().
RunCommands ==
    { Command("version", <<"gcloud version">>, "lookup", "cli", {}, {}),
      Command("secrets list", <<"gcloud secrets list">>, "probe", "secret", {}, {}),
      Command("run services describe", <<"gcloud run services describe blog">>,
              "probe", "service", {Res("service", <<"blog">>)}, {}),
      Command("services enable", <<"gcloud services enable run.googleapis.com">>,
              "update", "apis", {}, {SqlApi}),
      Command("run deploy", <<"gcloud run deploy blog">>, "create", "service", {},
              {Res("service", <<"blog">>)}),
      Command("artifacts repositories create",
              <<"gcloud artifacts repositories create containers">>,
              "create", "registry", {}, {Res("registry", <<"containers">>)}),
      Command("builds submit --pack", <<"gcloud builds submit --pack image=blog">>,
              "create", "image", {Res("registry", <<"containers">>)},
              {Res("image", <<"blog">>)}),
      Command("beta run jobs create", <<"gcloud beta run jobs create migrate">>,
              "create", "job", {Res("image", <<"blog">>)}, {Res("job", <<"migrate">>)}) }

\* A caller about to call run(cmd, stream, fail); cmd holds the arguments.
RunInit ==
    /\ sd = BaseSd
    /\ gcloud \in {BaseGcloud, [BaseGcloud EXCEPT !.installed = FALSE]}
    /\ remote \in {{}, {Res("registry", <<"containers">>), Res("image", <<"blog">>)}}
    /\ files = BaseFiles
    /\ runNo = 1
    /\ faults = 0
    /\ outcomes = <<>>
    /\ self = [a \in Attributes |-> UNSET]
    /\ frame = NoFrame
    /\ pc = "run"
    /\ status = "running"
    /\ \E c \in RunCommands, stream \in BOOLEAN, fail \in BOOLEAN :
          cmd = [c EXCEPT !.stream = stream, !.fail = fail]
    /\ shown = {}
    /\ answer = "none"
    /\ probed = [k \in ProbeKeys |-> "none"]
    /\ steps = <<>>
    /\ ignored = {}

\* The call: echo, execute, sys.exit(1) or return to the caller.
run_call ==
    /\ At("run")
    /\ \E rc \in {0, 1} :
         /\ run(cmd, rc)
         /\ shown' = {Echo(cmd)}
         /\ IF run_exits(cmd, rc)
            THEN /\ pc' = "run.returned"
                 /\ status' = "exit1"
                 /\ outcomes' = Append(outcomes, "exit1")
            ELSE Goto("run.returned")
    /\ answer' = "none"
    /\ UNCHANGED <<files, self, frame, probed, steps>>
    /\ Same

RunNext == run_call

RunSpec == RunInit /\ [][RunNext]_vars

----------------------------------------------------------------------------

ProjectName ==
    IF sd.deployed_project_name # <<>> THEN sd.deployed_project_name ELSE sd.project_name

Hyphenated == Replace(ProjectName, "_", <<"-">>)

AfterServiceName == status = "running" /\ pc = Return("_get_service_name")

ServiceNameDeclined ==
    /\ status = "exit"
    /\ Log(cancel_service_name) \in shown
    /\ self.service_name = UNSET
    /\ cmd = NoCmd

\* C18 as stated: the service-name confirmation path. The step goes on only
\* with the reply yes whenever the transliterated name differs from the
\* project name; on the reply no the process exits with the guidance, the
\* service name stays unset and no command is issued.
C18_ConfirmWheneverNameDiffers ==
    /\ (AfterServiceName /\ anyascii(Hyphenated) # ProjectName) => answer = "yes"
    /\ (pc = "_get_service_name" /\ answer = "no") => ServiceNameDeclined

\* C18 as amended: the confirmation is requested exactly when transliteration
\* changes the name that already has its underscores replaced; replacing
\* underscores alone asks nothing. On the reply no the process exits with the
\* guidance, the service name stays unset and no command is issued.
C18_ConfirmWhenTransliterationChangesName ==
    /\ AfterServiceName
         => (answer = "yes" <=> anyascii(Hyphenated) # Hyphenated)
    /\ (pc = "_get_service_name" /\ status # "running")
         => answer = "no" /\ anyascii(Hyphenated) # Hyphenated
    /\ (pc = "_get_service_name" /\ answer = "no") => ServiceNameDeclined

C18_Witness ==
    /\ sd.project_name = <<"stra", "ß", "e">>
    /\ sd.deployed_project_name = <<>>
    /\ pc = "_get_service_name"
    /\ answer = "no"
    /\ ServiceNameDeclined

----------------------------------------------------------------------------

Fatal == {"CommandError", "exit1", "AttributeError"}

\* This run is a retry: the run before it was halted by a fatal error.
RetryAfterFatal == runNo > 1 /\ outcomes[runNo - 1] \in Fatal

Occurrences(line, text) ==
    IF text = NOFILE THEN 0 ELSE Cardinality({i \in 1..Len(text) : text[i] = line})

\* C19 as stated: retry after a fatal error is safe. In a retry no create
\* command is issued for a resource that exists already, and no local file
\* holds twice what a run writes into it.
C19_RetryDuplicatesNothing ==
    [][RetryAfterFatal
        => /\ (cmd' # cmd /\ cmd'.role = "create") => ~(cmd'.makes \subseteq remote)
           /\ Occurrences(migrate_command, files'["Procfile"]) <= 1
           /\ GuardedBlocks(files'["settings.py"]) <= 1]_vars

----------------------------------------------------------------------------

Committed == files[".git/HEAD"] # NOFILE

DeploymentBuild == "builds submit"

\* Every provisioning step and every local-configuration step has finished.
AllStepsFinished ==
    /\ steps # <<>> /\ steps[Len(steps)] = "job"
    /\ pc \notin {"_create_migrate_job", "_create_migrate_job.create"}
    /\ \A f \in {"Procfile", ".gcloudignore", "cloudbuild.yaml"} : Exists(f)
    /\ GuardedBlocks(files["settings.py"]) >= 1

\* C20: automate-all gating. The changes are committed and the deployment
\* build is submitted only under automate-all and only after every
\* provisioning and local-configuration step; under automate-all the
\* concluding step does both; the success message is the automate-all variant
\* exactly under automate-all, otherwise the configuration-only variant.
C20_AutomateAllGating ==
    [][/\ ((cmd'.op = DeploymentBuild /\ cmd.op # DeploymentBuild)
            \/ files'[".git/HEAD"] # files[".git/HEAD"])
            => sd.automate_all /\ AllStepsFinished
       /\ (At("_conclude_automate_all") /\ pc' # pc /\ sd.automate_all)
            => cmd'.op = DeploymentBuild /\ Committed'
       /\ (status' = "success" /\ status # "success")
            => /\ sd.automate_all => Committed
               /\ shown' = {Log(IF sd.automate_all
                                THEN success_msg_automate_all(self.deployed_url)
                                ELSE success_msg(sd.log_output))}]_vars

C20_Witness ==
    /\ status = "success"
    /\ sd.automate_all
    /\ Committed
    /\ Log(success_msg_automate_all(self.deployed_url)) \in shown

----------------------------------------------------------------------------

\* Position i of text starts a line.
LineStart(text, i) == i = 1 \/ text[i - 1] = "\n"

\* The block is delimited, holds the guard once, has nothing but blank lines,
\* the delimiter and `import os` before the guard, and only indented or blank
\* lines after it.
GuardedBlock(block) ==
    \E g \in 1..Len(block) :
        /\ block[g] = "if os.environ.get(\"ON_CLOUDRUN\"):"
        /\ \A i \in 1..Len(block) :
             /\ i < g => block[i] \in {"\n", "# --- Settings for Cloud Run ---", "import os"}
             /\ (i > g /\ LineStart(block, i)) => block[i] \in {"    ", "\n"}
        /\ \E i \in 1..(g - 1) : block[i] = "# --- Settings for Cloud Run ---"
        /\ \E i \in (g + 1)..Len(block) : block[i] = "    "

\* C21: the settings mutation preserves the existing content. When
\* _modify_settings finds no Cloud Run block, the file it writes is the whole
\* previous content, unchanged, followed by one delimited block with every
\* setting inside the guard.
C21_SettingsPreserved ==
    [][(At("_modify_settings") /\ pc' # pc
        /\ ~Contains(<<"if os.environ.get(\"ON_CLOUDRUN\"):">>, files["settings.py"]))
        => LET old == files["settings.py"]
               new == files'["settings.py"]
           IN /\ Len(new) > Len(old)
              /\ SubSeq(new, 1, Len(old)) = old
              /\ GuardedBlock(SubSeq(new, Len(old) + 1, Len(new)))]_vars

C21_Witness ==
    /\ runNo = 1
    /\ pc = "_add_python_packages"
    /\ \E st \in SettingsFiles \ {PlainSettings} :
         files["settings.py"] =
           settings_template([deployed_url |-> Replace(self.deployed_url, "https://", <<>>),
                              current_settings |-> st])

----------------------------------------------------------------------------

SetupSteps ==
    {"confirm_preliminary", "validate_platform", "_get_googlecloud_project",
     "_get_googlecloud_project.describe", "_get_googlerun_region", "_get_service_name"}

ConfigurationSteps ==
    {"_generate_procfile", "_add_gcloudignore", "_add_cloudbuild_yaml",
     "_modify_settings", "_add_python_packages"}

GenerationSteps ==
    {"_create_container", "_create_container.build", "_create_migrate_job",
     "_create_migrate_job.create"}

ConcludingSteps == {"_conclude_automate_all", "_show_success_message"}

\* The phases as the specification orders them: the image and the job belong
\* to resource creation.
SpecPhase(l) ==
    CASE l \in SetupSteps -> 1
      [] l \in ConfigurationSteps -> 3
      [] l \in ConcludingSteps -> 4
      [] OTHER -> 2

\* The phases as deploy orders them: generation follows configuration.
CodePhase(l) ==
    CASE l \in SetupSteps -> 1
      [] l \in ConfigurationSteps -> 3
      [] l \in GenerationSteps -> 4
      [] l \in ConcludingSteps -> 5
      [] OTHER -> 2

\* C22 as stated: phase order. Within a run, setup steps come first, then
\* every resource-creation step, the image and the job included, then the
\* local configuration steps, then the conclusion: no step belongs to an
\* earlier phase than the step before it.
C22_CreationBeforeConfiguration ==
    [][(runNo' = runNo) => SpecPhase(pc') >= SpecPhase(pc)]_vars

\* C22 as amended: setup, then resource creation up to the database, then
\* local configuration, then generation of the image and the job, then the
\* conclusion.
C22_GenerationAfterConfiguration ==
    [][(runNo' = runNo) => CodePhase(pc') >= CodePhase(pc)]_vars

C22_Witness ==
    /\ status = "running"
    /\ pc = "_create_container"
    /\ steps # <<>> /\ steps[Len(steps)] = "associate"
    /\ \A f \in {"Procfile", ".gcloudignore", "cloudbuild.yaml"} : Exists(f)

----------------------------------------------------------------------------
(* Two runs at once against one cloud project: the probe-then-create steps
   for the registry and the database. pc, cmd and probed are per run. *)

Runs == {1, 2}

\* Both runs are in the same project: the attributes the steps read.
ConcurrentSelf ==
    [a \in Attributes |->
        CASE a = "region" -> <<"us-east1">>
          [] a = "project_id" -> <<"proj">>
          [] a = "service_name" -> <<"blog">>
          [] a = "artifact_registry" -> <<"containers">>
          [] a = "instance_name" -> <<"sd-inst">>
          [] a = "database_name" -> <<"sd-db">>
          [] OTHER -> UNSET]

ConcurrentInit ==
    /\ sd = BaseSd
    /\ gcloud = BaseGcloud
    /\ remote \in { {SqlApi, Res("instance", <<"sd-inst">>)},
                     {SqlApi, Res("instance", <<"sd-inst">>),
                      Res("registry", <<"containers">>)},
                     {SqlApi, Res("instance", <<"sd-inst">>),
                      Res("database", <<"sd-db">>)} }
    /\ files = BaseFiles
    /\ runNo = 1
    /\ faults = 0
    /\ outcomes = <<>>
    /\ self = ConcurrentSelf
    /\ frame = NoFrame
    /\ pc = [r \in Runs |-> "_create_registry"]
    /\ status = "running"
    /\ cmd = [r \in Runs |-> NoCmd]
    /\ shown = {}
    /\ answer = "none"
    /\ probed = [r \in Runs |-> [k \in ProbeKeys |-> "none"]]
    /\ steps = <<>>
    /\ ignored = {}

\* run() called by run r.
run_by(r, c, rc) ==
    /\ rc \in ExitCodes(c)
    /\ cmd' = [cmd EXCEPT ![r] = [c EXCEPT !.rc = rc]]
    /\ remote' = IF rc = 0 THEN remote \cup c.makes ELSE remote
    /\ faults' = IF rc # 0 /\ c.needs \subseteq remote THEN faults + 1 ELSE faults
    /\ ignored' = IF rc # 0 /\ Mutating(c) /\ ~run_exits(c, rc)
                  THEN ignored \cup {c.op} ELSE ignored
    /\ shown' = {Echo(c)}

ConcurrentFrame ==
    /\ answer' = "none"
    /\ UNCHANGED <<files, self, frame, steps, status, outcomes>>
    /\ Same

create_always(found) == TRUE

\* `if <name> in return_str: return`, else the create command follows.
create_after_probe(found) == ~found

\* _create_registry, lines 231-240, in run r.
concurrent_create_registry(r) ==
    /\ pc[r] = "_create_registry"
    /\ LET c == Command("artifacts repositories list",
                        <<"gcloud artifacts repositories list --location ">> \o self.region,
                        "probe", "registry", {}, {})
           found == InOutput(self.artifact_registry, Listed("registry"))
       IN /\ run_by(r, c, 0)
          /\ probed' = [probed EXCEPT ![r]["registry"] =
                                         IF found THEN "present" ELSE "absent"]
          /\ pc' = [pc EXCEPT ![r] = IF create_after_probe(found)
                                     THEN "_create_registry.create"
                                     ELSE "_create_db.database"]
    /\ ConcurrentFrame

\* _create_registry, lines 242-245, in run r.
concurrent_create_registry_create(r) ==
    /\ pc[r] = "_create_registry.create"
    /\ LET c == Command("artifacts repositories create",
                        <<"gcloud artifacts repositories create ">> \o self.artifact_registry
                        \o <<" --repository-format=docker --location ">> \o self.region,
                        "create", "registry", {},
                        {Res("registry", self.artifact_registry)})
       IN \E rc \in {0, 1} : run_by(r, c, rc)
    /\ pc' = [pc EXCEPT ![r] = "_create_db.database"]
    /\ probed' = probed
    /\ ConcurrentFrame

\* _create_db, lines 605-609, in run r.
concurrent_create_db_database(r) ==
    /\ pc[r] = "_create_db.database"
    /\ LET c == Command("sql databases list",
                        <<"gcloud sql databases list --instance ">> \o self.instance_name,
                        "probe", "database", {Instance}, {})
       IN \E rc \in {0, 1} :
            LET return_str == IF rc = 0 THEN Listed("database") ELSE {}
                db_exists == _check_if_db_exists(return_str, self.database_name)
            IN /\ run_by(r, c, rc)
               /\ probed' = [probed EXCEPT ![r]["database"] =
                                              IF db_exists THEN "present" ELSE "absent"]
               /\ pc' = [pc EXCEPT ![r] = IF create_after_probe(db_exists)
                                          THEN "_create_db.create_database"
                                          ELSE "_create_db.user"]
    /\ ConcurrentFrame

\* _create_db, lines 610-616, in run r.
concurrent_create_db_create_database(r) ==
    /\ pc[r] = "_create_db.create_database"
    /\ LET c == Command("sql databases create",
                        <<"gcloud sql databases create ">> \o self.database_name
                        \o <<" --instance ">> \o self.instance_name,
                        "create", "database", {Instance},
                        {Res("database", self.database_name)})
       IN \E rc \in {0, 1} : run_by(r, c, rc)
    /\ pc' = [pc EXCEPT ![r] = "_create_db.user"]
    /\ probed' = probed
    /\ ConcurrentFrame

ConcurrentNext ==
    \E r \in Runs :
        \/ concurrent_create_registry(r)
        \/ concurrent_create_registry_create(r)
        \/ concurrent_create_db_database(r)
        \/ concurrent_create_db_create_database(r)

ConcurrentSpec == ConcurrentInit /\ [][ConcurrentNext]_vars

\* C23: concurrent runs are not protected. Each run issues a create command
\* on the strength of its own earlier probe alone, so two runs that both
\* probed a resource absent both issue the create command for it.
C23_CreateRestsOnOwnProbe ==
    \A r \in Runs :
        /\ cmd[r].role = "create" => probed[r][cmd[r].kind] = "absent"
        /\ pc[r] = "_create_registry.create" <=> 
             (probed[r]["registry"] = "absent" /\ cmd[r].op = "artifacts repositories list")
        /\ pc[r] = "_create_db.create_database" <=>
             (probed[r]["database"] = "absent" /\ cmd[r].op = "sql databases list")

\* Both runs probed the registry absent and both issued the create command.
C23_Witness ==
    \A r \in Runs :
        /\ probed[r]["registry"] = "absent"
        /\ cmd[r].op = "artifacts repositories create"

----------------------------------------------------------------------------

\* The AttributeError of _create_db is a name missing from the messages
\* module, not an attribute of the deployer.
MissingMessage == status = "AttributeError" /\ pc = "_create_db"

\* C24 as stated: definition before use. No step reads an attribute that no
\* earlier step of the run has assigned: no run ends in AttributeError over
\* an attribute of the deployer, and no command, message or written file
\* holds the value of an unset attribute.
C24_AttributesSetBeforeUse ==
    /\ status = "AttributeError" => MissingMessage
    /\ ~Contains(UNSET, cmd.text)
    /\ \A t \in shown : ~Contains(UNSET, t.text)
    /\ \A f \in FileNames : ~Contains(UNSET, files[f])

----------------------------------------------------------------------------

\* _create_db has gone past the user and secret probes without raising.
PastUserAndSecret ==
    \/ cmd.op = "run services update --set-cloudsql-instances"
    \/ status = "success"

\* C25 as stated: the postcondition of _create_db. Once _create_db has gone
\* on to associate the database, the database user has been found or its
\* creation issued: the run never goes on, nor reports success, with the user
\* probed absent, the secret probed present and no database user.
C25_UserFoundOrCreated ==
    PastUserAndSecret
        => ~(/\ probed["user"] = "absent"
             /\ probed["database_secret"] = "present"
             /\ DatabaseUser \notin remote)

----------------------------------------------------------------------------

\* The fully qualified database string of the run, once _create_db has set
\* the names it is built from.
fqstring_of_run ==
    <<"/cloudsql/">> \o self.project_id \o <<":">> \o self.region
    \o <<":">> \o self.instance_name \o <<"/">> \o self.database_name

CreateDbEntered == self.instance_name # UNSET

DatabaseCommandIssued ==
    \/ \E k \in {"instance", "database", "user", "database_secret"} :
          probed[k] # "none"
    \/ pc \in {"_create_db.instance", "_create_db.confirm",
               "_create_db.create_instance", "_create_db.database",
               "_create_db.create_database", "_create_db.user",
               "_create_db.secret", "_create_db.create_user",
               "_create_db.associate"}

\* C26 as stated: exactly when the fully qualified database string is longer
\* than 63 characters, _create_db ends the run with a CommandError (a
\* user-facing message, not a stack trace), and it does so before any
\* database probe or create command.
C26_TooLongIsCommandError ==
    CreateDbEntered =>
        /\ (len(fqstring_of_run) > psql_max_name_length)
             <=> (pc = "_create_db" /\ status # "running")
        /\ (pc = "_create_db" /\ status # "running")
             => (status = "CommandError" /\ ~DatabaseCommandIssued)

\* The part of C26 the code keeps: the run stops in _create_db exactly when
\* the string is longer than 63 characters, before any database command.
C26_TooLongStopsBeforeDatabase ==
    CreateDbEntered =>
        /\ (len(fqstring_of_run) > psql_max_name_length)
             <=> (pc = "_create_db" /\ status # "running")
        /\ (pc = "_create_db" /\ status # "running") => ~DatabaseCommandIssued

\* A run stopped on a string of 66 characters; one went on with 63.
C26_StoppedWitness ==
    /\ CreateDbEntered /\ pc = "_create_db" /\ status # "running"
    /\ len(fqstring_of_run) = 66

C26_BoundaryWitness ==
    /\ CreateDbEntered /\ pc = "_create_db.instance"
    /\ len(fqstring_of_run) = psql_max_name_length

----------------------------------------------------------------------------

\* The values stored under a secret name in a set of cloud resources.
ValuesOf(resources, name) ==
    {r \in resources :
        /\ r.kind = "secret_version"
        /\ Len(r.name) > Len(name)
        /\ SubSeq(r.name, 1, Len(name) + 1) = name \o <<"=">>}

SecretNames == Listed("secret")

\* C27 as stated: an existing secret's value is never overwritten. A step of
\* _create_and_assign_secret whose probe reports the secret present does not
\* go on to 'secrets create', 'secrets create' is issued only after a probe
\* that reported the secret absent, and no step of any run changes the value
\* of a secret that exists.
C27_ExistingSecretKept ==
    [][/\ (At("_create_and_assign_secret")
            /\ probed'[SecretKey(frame.secret_envvar)] = "present")
          => pc' = "_create_and_assign_secret.bind"
       /\ (cmd' # cmd /\ cmd'.op = "secrets create")
          => probed[SecretKey(frame.secret_envvar)] = "absent"
       /\ \A n \in SecretNames : ValuesOf(remote', n) = ValuesOf(remote, n)
      ]_vars

\* A second run found the secret key of the first run, went on to the
\* permissions with its own fresh key in hand, and the secret still holds
\* the first run's key.
C27_Witness ==
    /\ runNo = 2
    /\ pc = "_create_and_assign_secret.bind"
    /\ probed["secret_key"] = "present"
    /\ frame.secret_value = <<"random-secret-key-2">>
    /\ ValuesOf(remote, frame.secret_name)
         = {SecretVersion(frame.secret_name, <<"random-secret-key-1">>)}

----------------------------------------------------------------------------

\* The lines of a text: the runs of tokens between line breaks.
RECURSIVE Lines(_)
Lines(text) ==
    IF text = <<>> THEN << <<>> >>
    ELSE LET rest == Lines(Tail(text))
         IN IF Head(text) = "\n"
            THEN << <<>> >> \o rest
            ELSE << <<Head(text)>> \o Head(rest) >> \o Tail(rest)

\* The process entries of a Procfile: its non-empty lines.
ProcessEntries(text) ==
    LET ls == Lines(text) IN {i \in 1..Len(ls) : ls[i] # <<>>}

\* The entries of a Procfile that start with the given words.
EntriesOf(start, text) ==
    LET ls == Lines(text)
    IN {i \in ProcessEntries(text) : Head(ls[i]) = start}

\* The first half of C28: a Procfile generated where there was none has
\* exactly two entries, one web entry and one migrate entry, each on a line
\* of its own.
C28_GeneratedHasTwoEntries ==
    [][(At("_generate_procfile") /\ pc' # pc /\ ~Exists("Procfile"))
        => LET after == files'["Procfile"]
           IN /\ Cardinality(ProcessEntries(after)) = 2
              /\ Cardinality(EntriesOf("web: gunicorn ", after)) = 1
              /\ Cardinality(EntriesOf(migrate_command, after)) = 1]_vars

\* The second half of C28: a call that finds a Procfile leaves it with at
\* most one migrate entry, whatever the number of runs before it.
C28_ExistingHasOneMigrate ==
    [][(At("_generate_procfile") /\ pc' # pc /\ Exists("Procfile"))
        => Cardinality(EntriesOf(migrate_command, files'["Procfile"])) <= 1]_vars

\* C28 as stated: the generated process manifest. Where there was no
\* Procfile, _generate_procfile writes exactly two entries, a web entry and a
\* migrate entry, each on its own line; where there was one, it holds at most
\* one migrate entry after any number of runs.
C28_ProcfileEntries ==
    [][(At("_generate_procfile") /\ pc' # pc)
        => LET after == files'["Procfile"]
           IN /\ ~Exists("Procfile")
                    => /\ Cardinality(ProcessEntries(after)) = 2
                       /\ Cardinality(EntriesOf("web: gunicorn ", after)) = 1
                       /\ Cardinality(EntriesOf(migrate_command, after)) = 1
              /\ Exists("Procfile")
                    => Cardinality(EntriesOf(migrate_command, after)) <= 1]_vars

====
